---------------------------- MODULE Spec2Model ----------------------------
(***************************************************************************)
(* Model of the voxy library: the shell iterators of iterator.hpp, the     *)
(* dense voxel array Chunk3D of chunk.hpp and the 3x3x3 Cluster3D view of  *)
(* cluster.hpp.                                                            *)
(*                                                                         *)
(* The specifications share the module:                                   *)
(*   SpecIter     one expandIterator3D call and one shrinkIterator3D call  *)
(*                on the same cube size, each stepping unit by unit;       *)
(*   SpecLayer    one call of runLayerIterator3D on a pair of indices;     *)
(*   SpecIndex    posToIndex / indexToPos on volumes of any size;          *)
(*   SpecChunk    a Chunk3D<SX,SY,SZ,V> under get, set, fill and clear;    *)
(*   SpecChunkTry the same chunk under tryGet and trySet;                  *)
(*   SpecCopy     the same chunk under the region copy;                    *)
(*   SpecCluster  a Cluster3D over cubic chunks under its accessors.       *)
(* The variables of the other components stay at their idle values.        *)
(***************************************************************************)
EXTENDS Integers, Sequences, FiniteSets, TLC

VARIABLES
    size,      \* iterator: the cube side N passed to both traversals
    ndebug,    \* TRUE when assert() is compiled out (NDEBUG)
    ePc,       \* expandIterator3D: position of the call
    ePositive, \* expandIterator3D: local `positive`
    eNegative, \* expandIterator3D: local `negative`
    eOut,      \* expandIterator3D: visitor calls so far, one sequence per unit
    sPc,       \* shrinkIterator3D: position of the call
    sPositive, \* shrinkIterator3D: local `positive`
    sNegative, \* shrinkIterator3D: local `negative`
    sOut,      \* shrinkIterator3D: visitor calls so far, one sequence per unit
    voxels,    \* Chunk3D::voxels, indexed from 0
    out,       \* the caller's Voxel variable passed to tryGet by reference
    cOp,       \* the recorded Chunk3D call: its name, arguments and return value,
               \* and the array (before) or the caller's variable (outBefore) it found
    cSteps,    \* number of writes made to the chunk before the recorded call
    volume,    \* index calls: the volume's size along X, Y and Z
    iOp,       \* index calls: the recorded posToIndex / indexToPos call
    chunks,    \* Cluster3D::chunks, indexed from 0: a chunk's voxels or NullChunk
    kOp,       \* the last Cluster3D call: its name, arguments and results
    kSteps     \* number of Cluster3D calls made

iterVars == <<size, ndebug, ePc, ePositive, eNegative, eOut,
              sPc, sPositive, sNegative, sOut>>

chunkVars == <<voxels, out, cOp, cSteps>>

indexVars == <<volume, iOp>>

clusterVars == <<chunks, kOp, kSteps>>

vars == <<iterVars, indexVars, chunkVars, clusterVars>>

(***************************************************************************)
(* Bounds of the model.                                                    *)
(***************************************************************************)
MaxSize == 6

\* Chunk3D<SX, SY, SZ, V>: the template arguments of the modelled chunk
SX == 2

SY == 3

SZ == 2

\* largest size along an axis of the volumes the index calls are made on
MaxDim == 3

\* Chunk::length of the cluster's chunks: the side of a cubic chunk in voxels
ChunkLength == 2

\* number of writes made to a chunk before the call whose effect is recorded
MaxSetup == 1

\* runLayerIterator3D is called with layer indices up to MaxLayer away from
\* either end of the range of uint8_t
MaxLayer == 4

\* largest size along an axis of the source arrays of the region copy
MaxOther == 2

\* largest count along an axis of the boxes the region copy is called with
MaxCount == 2

(***************************************************************************)
(* Integer widths.  T is uint8_t in every instantiation the headers name.  *)
(***************************************************************************)
U8Mod == 256

U8(n) == n % U8Mod

(***************************************************************************)
(* Loop helpers: the values a C for-loop over a uint8_t counter takes.     *)
(***************************************************************************)
\* for (T v = a; v < b; v++)
ForLt(a, b) == [k \in 1..(IF a < b THEN b - a ELSE 0) |-> a + k - 1]

\* for (T v = a; v <= b; v++)   (b < 255, otherwise the loop never ends)
ForLe(a, b) == [k \in 1..(IF a <= b THEN b - a + 1 ELSE 0) |-> a + k - 1]

\* for (o in Outer) for (i in Inner): the pairs <<o, i>> in the order of the loops
Nest(Outer, Inner) ==
    [k \in 1..(Len(Outer) * Len(Inner)) |->
        <<Outer[((k - 1) \div Len(Inner)) + 1], Inner[((k - 1) % Len(Inner)) + 1]>>]

\* assert(cond): passes when asserts are compiled out or cond holds
AssertOk(cond) == ndebug \/ cond

(***************************************************************************)
(* iterator.hpp                                                            *)
(***************************************************************************)
prepareAssert(sz) == sz > 1

prepareIterator3D(sz) ==
    LET isEven == (sz % 2 = 0)
        center0 == sz \div 2
        center == IF isEven THEN U8(center0 - 1) ELSE center0
    IN [center |-> center,
        isEven |-> isEven,
        positive |-> IF isEven THEN U8(center + 2) ELSE U8(center + 1)]

runLayerAssert(positive, negative) == positive > negative

\* the loops of runLayerIterator3D never end when positive = 255 (x <= positive
\* holds for every uint8_t x) or positiveOne = 255 (z <= positiveOne does)
runLayerDiverges(positive) == positive = U8Mod - 1 \/ U8(positive - 1) = U8Mod - 1

runLayerIterator3D(positive, negative) ==
    LET negativeOne == U8(negative + 1)
        positiveOne == U8(positive - 1)
        full == ForLe(negative, positive)
        inner == ForLe(negativeOne, positiveOne)
        yx == Nest(full, full)      \* for y = negative..positive, x = negative..positive
        zx == Nest(inner, full)     \* for z = negativeOne..positiveOne, x = negative..positive
        zy == Nest(inner, inner)    \* for z = negativeOne..positiveOne, y likewise
    IN    [k \in DOMAIN yx |-> <<yx[k][2], yx[k][1], negative>>]
       \o [k \in DOMAIN yx |-> <<yx[k][2], yx[k][1], positive>>]
       \o [k \in DOMAIN zx |-> <<zx[k][2], negative, zx[k][1]>>]
       \o [k \in DOMAIN zx |-> <<zx[k][2], positive, zx[k][1]>>]
       \o [k \in DOMAIN zy |-> <<negative, zy[k][2], zy[k][1]>>]
       \o [k \in DOMAIN zy |-> <<positive, zy[k][2], zy[k][1]>>]

runCenterAssert(center, positive) == center > 0 /\ positive > 0

runCenterIterator3D(center, positive, isEven) ==
    IF isEven
    THEN LET r == ForLt(center, positive)
             zyx == Nest(Nest(r, r), r)     \* for z, for y, for x in center..positive-1
         IN [k \in DOMAIN zyx |-> <<zyx[k][2], zyx[k][1][2], zyx[k][1][1]>>]
    ELSE << <<center, center, center>> >>

checkExpandIterator3D(sz, positive) == positive < sz

advanceAssert(positive, negative) == positive > negative

\* faulty variant of advanceExpandIterator3D: negative is not stepped
advanceExpandIterator3D_KeepsNegative(positive, negative) ==
    [positive |-> U8(positive + 1), negative |-> negative]

advanceExpandIterator3D(positive, negative) ==
    [positive |-> U8(positive + 1), negative |-> U8(negative - 1)]

beginShrinkIterator3D(sz) == [negative |-> 0, positive |-> U8(sz - 1)]

\* faulty variant of checkShrinkIterator3D: the loop also runs for a 2-wide layer
checkShrinkIterator3D_OffByOne(positive, negative) == positive - negative >= 1

\* positive - negative is computed in int after integer promotion
checkShrinkIterator3D(positive, negative) == positive - negative > 1

advanceShrinkIterator3D(positive, negative) ==
    [positive |-> U8(positive - 1), negative |-> U8(negative + 1)]

(***************************************************************************)
(* expandIterator3D, one action per unit of work.                          *)
(***************************************************************************)
\* asserts of expandIterator3D and beginExpandIterator3D, prepareIterator3D,
\* runCenterIterator3D, then negative = center - 1
ExpandBegin ==
    /\ ePc = "begin"
    /\ LET p == prepareIterator3D(size)
       IN IF /\ AssertOk(prepareAssert(size))
             /\ AssertOk(runCenterAssert(p.center, p.positive))
          THEN /\ ePc' = "check"
               /\ ePositive' = p.positive
               /\ eNegative' = U8(p.center - 1)
               /\ eOut' = Append(eOut, runCenterIterator3D(p.center, p.positive, p.isEven))
          ELSE /\ ePc' = "abort"
               /\ UNCHANGED <<ePositive, eNegative, eOut>>
    /\ UNCHANGED <<indexVars, chunkVars, clusterVars>>
    /\ UNCHANGED <<size, ndebug, sPc, sPositive, sNegative, sOut>>

\* while (checkExpandIterator3D(size, positive)) runLayerIterator3D(...)
ExpandRunLayer ==
    /\ ePc = "check"
    /\ checkExpandIterator3D(size, ePositive)
    /\ IF ~AssertOk(runLayerAssert(ePositive, eNegative))
       THEN ePc' = "abort" /\ UNCHANGED eOut
       ELSE IF runLayerDiverges(ePositive)
       THEN ePc' = "hang" /\ UNCHANGED eOut
       ELSE /\ ePc' = "advance"
            /\ eOut' = Append(eOut, runLayerIterator3D(ePositive, eNegative))
    /\ UNCHANGED <<indexVars, chunkVars, clusterVars>>
    /\ UNCHANGED <<size, ndebug, ePositive, eNegative, sPc, sPositive, sNegative, sOut>>

ExpandAdvance ==
    /\ ePc = "advance"
    /\ IF AssertOk(advanceAssert(ePositive, eNegative))
       THEN LET a == advanceExpandIterator3D(ePositive, eNegative)
            IN /\ ePc' = "check"
               /\ ePositive' = a.positive
               /\ eNegative' = a.negative
       ELSE ePc' = "abort" /\ UNCHANGED <<ePositive, eNegative>>
    /\ UNCHANGED <<indexVars, chunkVars, clusterVars>>
    /\ UNCHANGED <<size, ndebug, eOut, sPc, sPositive, sNegative, sOut>>

ExpandReturn ==
    /\ ePc = "check"
    /\ ~checkExpandIterator3D(size, ePositive)
    /\ ePc' = "done"
    /\ UNCHANGED <<indexVars, chunkVars, clusterVars>>
    /\ UNCHANGED <<size, ndebug, ePositive, eNegative, eOut, sPc, sPositive, sNegative, sOut>>

(***************************************************************************)
(* shrinkIterator3D, one action per unit of work.                          *)
(***************************************************************************)
ShrinkBegin ==
    /\ sPc = "begin"
    /\ IF AssertOk(prepareAssert(size))
       THEN LET b == beginShrinkIterator3D(size)
            IN /\ sPc' = "check"
               /\ sPositive' = b.positive
               /\ sNegative' = b.negative
       ELSE sPc' = "abort" /\ UNCHANGED <<sPositive, sNegative>>
    /\ UNCHANGED <<indexVars, chunkVars, clusterVars>>
    /\ UNCHANGED <<size, ndebug, sOut, ePc, ePositive, eNegative, eOut>>

ShrinkRunLayer ==
    /\ sPc = "check"
    /\ checkShrinkIterator3D(sPositive, sNegative)
    /\ IF ~AssertOk(runLayerAssert(sPositive, sNegative))
       THEN sPc' = "abort" /\ UNCHANGED sOut
       ELSE IF runLayerDiverges(sPositive)
       THEN sPc' = "hang" /\ UNCHANGED sOut
       ELSE /\ sPc' = "advance"
            /\ sOut' = Append(sOut, runLayerIterator3D(sPositive, sNegative))
    /\ UNCHANGED <<indexVars, chunkVars, clusterVars>>
    /\ UNCHANGED <<size, ndebug, sPositive, sNegative, ePc, ePositive, eNegative, eOut>>

ShrinkAdvance ==
    /\ sPc = "advance"
    /\ IF AssertOk(advanceAssert(sPositive, sNegative))
       THEN LET a == advanceShrinkIterator3D(sPositive, sNegative)
            IN /\ sPc' = "check"
               /\ sPositive' = a.positive
               /\ sNegative' = a.negative
       ELSE sPc' = "abort" /\ UNCHANGED <<sPositive, sNegative>>
    /\ UNCHANGED <<indexVars, chunkVars, clusterVars>>
    /\ UNCHANGED <<size, ndebug, sOut, ePc, ePositive, eNegative, eOut>>

\* the loop is left; endShrinkIterator3D: prepareIterator3D + runCenterIterator3D
ShrinkEnd ==
    /\ sPc = "check"
    /\ ~checkShrinkIterator3D(sPositive, sNegative)
    /\ LET p == prepareIterator3D(size)
       IN IF /\ AssertOk(prepareAssert(size))
             /\ AssertOk(runCenterAssert(p.center, p.positive))
          THEN /\ sPc' = "done"
               /\ sOut' = Append(sOut, runCenterIterator3D(p.center, p.positive, p.isEven))
          ELSE sPc' = "abort" /\ UNCHANGED sOut
    /\ UNCHANGED <<indexVars, chunkVars, clusterVars>>
    /\ UNCHANGED <<size, ndebug, sPositive, sNegative, ePc, ePositive, eNegative, eOut>>

\* the iterator variables while another component is exercised
IdleIter ==
    /\ size = 0 /\ ndebug = FALSE
    /\ ePc = "idle" /\ ePositive = 0 /\ eNegative = 0 /\ eOut = <<>>
    /\ sPc = "idle" /\ sPositive = 0 /\ sNegative = 0 /\ sOut = <<>>

\* the chunk variables while another component is exercised
IdleChunk == voxels = <<>> /\ out = 0 /\ cOp = [name |-> "idle"] /\ cSteps = 0

\* the index-call variables while another component is exercised
IdleIndex == volume = <<>> /\ iOp = [name |-> "idle"]

\* the cluster variables while another component is exercised
IdleCluster == chunks = <<>> /\ kOp = [name |-> "idle"] /\ kSteps = 0

InitIter ==
    /\ IdleIndex /\ IdleChunk /\ IdleCluster
    /\ size \in 0..MaxSize
    /\ ndebug \in BOOLEAN
    /\ ePc = "begin" /\ ePositive = 0 /\ eNegative = 0 /\ eOut = <<>>
    /\ sPc = "begin" /\ sPositive = 0 /\ sNegative = 0 /\ sOut = <<>>

NextIter ==
    \/ ExpandBegin
    \/ ExpandRunLayer
    \/ ExpandAdvance
    \/ ExpandReturn
    \/ ShrinkBegin
    \/ ShrinkRunLayer
    \/ ShrinkAdvance
    \/ ShrinkEnd

SpecIter == InitIter /\ [][NextIter]_vars

(***************************************************************************)
(* runLayerIterator3D called on its own, with any pair of layer indices    *)
(* near either end of the range of uint8_t.  ePositive and eNegative hold  *)
(* the arguments and eOut the visitor calls of the one call.               *)
(***************************************************************************)
\* the pairs (positive, negative) the calls are made with
LayerPairs ==
    ((0..MaxLayer) \X (0..MaxLayer))
        \cup (((U8Mod - 1 - MaxLayer)..(U8Mod - 1)) \X ((U8Mod - 1 - MaxLayer)..(U8Mod - 1)))

InitLayer ==
    /\ IdleIndex /\ IdleChunk /\ IdleCluster
    /\ size = 0
    /\ ndebug \in BOOLEAN
    /\ ePc = "call" /\ eOut = <<>>
    /\ \E p \in LayerPairs : ePositive = p[1] /\ eNegative = p[2]
    /\ sPc = "idle" /\ sPositive = 0 /\ sNegative = 0 /\ sOut = <<>>

\* assert(positive > negative) fails
LayerAbort ==
    /\ ePc = "call"
    /\ ~AssertOk(runLayerAssert(ePositive, eNegative))
    /\ ePc' = "abort"
    /\ UNCHANGED <<size, ndebug, ePositive, eNegative, eOut, sPc, sPositive, sNegative, sOut>>
    /\ UNCHANGED <<indexVars, chunkVars, clusterVars>>

\* one of the loops never ends
LayerHang ==
    /\ ePc = "call"
    /\ AssertOk(runLayerAssert(ePositive, eNegative))
    /\ runLayerDiverges(ePositive)
    /\ ePc' = "hang"
    /\ UNCHANGED <<size, ndebug, ePositive, eNegative, eOut, sPc, sPositive, sNegative, sOut>>
    /\ UNCHANGED <<indexVars, chunkVars, clusterVars>>

\* the call returns after its six loop nests
LayerReturn ==
    /\ ePc = "call"
    /\ AssertOk(runLayerAssert(ePositive, eNegative))
    /\ ~runLayerDiverges(ePositive)
    /\ ePc' = "returned"
    /\ eOut' = <<runLayerIterator3D(ePositive, eNegative)>>
    /\ UNCHANGED <<size, ndebug, ePositive, eNegative, sPc, sPositive, sNegative, sOut>>
    /\ UNCHANGED <<indexVars, chunkVars, clusterVars>>

NextLayer ==
    \/ LayerAbort
    \/ LayerHang
    \/ LayerReturn

SpecLayer == InitLayer /\ [][NextLayer]_vars

(***************************************************************************)
(* voxel.hpp                                                               *)
(***************************************************************************)
voxelNull == 0

voxelUnknown == 1

predefinedCount == 3

\* the voxel IDs the calls are made with: the empty and the unknown sentinel
Voxels == {voxelNull, voxelUnknown}

(***************************************************************************)
(* chunk.hpp: index arithmetic                                             *)
(***************************************************************************)
\* faulty variant of posToIndex: rows are strided by y alone
posToIndex_NoRowStride(x, y, z, length, layerSize) == z * layerSize + y + x

\* voxy::posToIndex, computed in size_t
posToIndex(x, y, z, length, layerSize) == z * layerSize + y * length + x

\* faulty variant of indexToPos: index is not reduced modulo layerSize before y is taken
indexToPos_NoReduce(index, length, layerSize) ==
    [x |-> U8(index % length), y |-> U8(index \div length), z |-> U8(index \div layerSize)]

\* voxy::indexToPos, each component cast to T = uint8_t
indexToPos(index, length, layerSize) ==
    LET rest == index % layerSize
    IN [x |-> U8(rest % length), y |-> U8(rest \div length), z |-> U8(index \div layerSize)]

lengthX == SX

lengthY == SY

lengthZ == SZ

\* static constexpr uint16_t layerSize = SX * SY
chunkLayerSize == (SX * SY) % 65536

\* static constexpr uint32_t size = SX * SY * SZ (at most 255^3 < 2^32: no wrap)
chunkSize == SX * SY * SZ

\* Chunk3D::posToIndex(uint8_t, uint8_t, uint8_t) -> uint32_t
\* (at most 255 * 65535 + 255 * 255 + 255 < 2^32: the conversion never wraps)
ChunkPosToIndex(x, y, z) == posToIndex(x, y, z, lengthX, chunkLayerSize)

\* Chunk3D::indexToPos(uint32_t, uint8_t&, uint8_t&, uint8_t&)
ChunkIndexToPos(index) == indexToPos(index, lengthX, chunkLayerSize)

(***************************************************************************)
(* Calls of posToIndex / indexToPos on a volume of any size: Chunk3D's     *)
(* static posToIndex / indexToPos for the template arguments (SX, SY, SZ)  *)
(* = volume, with layerSize = SX * SY held in a uint16_t.                  *)
(***************************************************************************)
VolumeLayerSize == (volume[1] * volume[2]) % 65536

VolumeSize == volume[1] * volume[2] * volume[3]

InitIndex ==
    /\ IdleIter /\ IdleChunk /\ IdleCluster
    /\ volume \in (1..MaxDim) \X (1..MaxDim) \X (1..MaxDim)
    /\ iOp = [name |-> "none"]

\* posToIndex(x, y, z) with each coordinate up to the first one past the volume
CallPosToIndex(x, y, z) ==
    /\ iOp.name = "none"
    /\ iOp' = [name |-> "posToIndex", x |-> x, y |-> y, z |-> z,
               ret |-> posToIndex(x, y, z, volume[1], VolumeLayerSize)]
    /\ UNCHANGED <<volume, iterVars, chunkVars, clusterVars>>

\* indexToPos(index, x, y, z) with an index up to the first one past the array
CallIndexToPos(index) ==
    /\ iOp.name = "none"
    /\ iOp' = [name |-> "indexToPos", index |-> index,
               ret |-> indexToPos(index, volume[1], VolumeLayerSize)]
    /\ UNCHANGED <<volume, iterVars, chunkVars, clusterVars>>

NextIndex ==
    \/ \E x \in 0..volume[1], y \in 0..volume[2], z \in 0..volume[3] : CallPosToIndex(x, y, z)
    \/ \E index \in 0..VolumeSize : CallIndexToPos(index)

SpecIndex == InitIndex /\ [][NextIndex]_vars

(***************************************************************************)
(* chunk.hpp: accessors as functions of the voxel array                    *)
(***************************************************************************)
\* Voxel voxels[size] = {}
ZeroVoxels == [i \in 0..(chunkSize - 1) |-> 0]

\* Chunk3D::get(x, y, z); the caller guarantees index < size
get(vox, x, y, z) == vox[ChunkPosToIndex(x, y, z)]

\* Chunk3D::set(x, y, z, voxel); the caller guarantees index < size
set(vox, x, y, z, voxel) == [vox EXCEPT ![ChunkPosToIndex(x, y, z)] = voxel]

\* faulty variant of tryGet / trySet's check: the last index is taken for out of range
IndexInArray_Short(index) == index < chunkSize - 1

\* the check of tryGet / trySet: !(index >= size)
IndexInArray(index) == index < chunkSize

RECURSIVE FillFrom(_, _, _)
\* for (uint32_t i = ...; i < size; i++) voxels[i] = voxel
FillFrom(vox, i, voxel) ==
    IF i < chunkSize THEN FillFrom([vox EXCEPT ![i] = voxel], i + 1, voxel) ELSE vox

\* faulty variant of fill: the loop starts at index 1
fill_SkipFirst(vox, voxel) == FillFrom(vox, 1, voxel)

\* Chunk3D::fill
fill(vox, voxel) == FillFrom(vox, 0, voxel)

\* Chunk3D::clear: memset of size * sizeof(Voxel) zero bytes
clear(vox) == [i \in DOMAIN vox |-> IF i < chunkSize THEN 0 ELSE vox[i]]

(***************************************************************************)
(* Chunk3D calls.  Coordinates are uint8_t; the calls are made with every  *)
(* coordinate up to the first one past the chunk on each axis.             *)
(***************************************************************************)
CoordsX == 0..SX

CoordsY == 0..SY

CoordsZ == 0..SZ

\* x < SX and y < SY and z < SZ
InBounds(x, y, z) == x < SX /\ y < SY /\ z < SZ

\* Chunk3D() leaves the array as its initializer {} made it; Chunk3D(v) fills it
InitChunk ==
    /\ IdleIter /\ IdleIndex /\ IdleCluster
    /\ \/ voxels = ZeroVoxels /\ cOp = [name |-> "Chunk3D()"]
       \/ \E v \in Voxels :
             /\ voxels = fill(ZeroVoxels, v)
             /\ cOp = [name |-> "Chunk3D(v)", v |-> v]
    /\ out = voxelNull
    /\ cSteps = 0

\* the same, with the caller's Voxel variable holding any of the voxel IDs
InitChunkTry ==
    /\ IdleIter /\ IdleIndex /\ IdleCluster
    /\ \/ voxels = ZeroVoxels /\ cOp = [name |-> "Chunk3D()"]
       \/ \E v \in Voxels :
             /\ voxels = fill(ZeroVoxels, v)
             /\ cOp = [name |-> "Chunk3D(v)", v |-> v]
    /\ out \in Voxels
    /\ cSteps = 0

\* no call has been recorded yet: cOp still names the constructor
Constructed == cOp.name \in {"Chunk3D()", "Chunk3D(v)"}

\* an earlier set(x, y, z, v) of the caller, not recorded
ChunkSetupSet(x, y, z, v) ==
    /\ Constructed /\ cSteps < MaxSetup
    /\ ChunkPosToIndex(x, y, z) < chunkSize     \* assert(index < size)
    /\ voxels' = set(voxels, x, y, z, v)
    /\ cSteps' = cSteps + 1
    /\ UNCHANGED <<out, cOp, iterVars, indexVars, clusterVars>>

\* an earlier fill(v) of the caller, not recorded
ChunkSetupFill(v) ==
    /\ Constructed /\ cSteps < MaxSetup
    /\ voxels' = fill(voxels, v)
    /\ cSteps' = cSteps + 1
    /\ UNCHANGED <<out, cOp, iterVars, indexVars, clusterVars>>

ChunkGet(x, y, z) ==
    /\ Constructed
    /\ ChunkPosToIndex(x, y, z) < chunkSize     \* assert(index < size)
    /\ cOp' = [name |-> "get", x |-> x, y |-> y, z |-> z, ret |-> get(voxels, x, y, z)]
    /\ UNCHANGED <<voxels, out, cSteps, iterVars, indexVars, clusterVars>>

ChunkSet(x, y, z, v) ==
    /\ Constructed
    /\ ChunkPosToIndex(x, y, z) < chunkSize     \* assert(index < size)
    /\ voxels' = set(voxels, x, y, z, v)
    /\ cOp' = [name |-> "set", x |-> x, y |-> y, z |-> z, v |-> v, before |-> voxels]
    /\ UNCHANGED <<out, cSteps, iterVars, indexVars, clusterVars>>

ChunkTryGet(x, y, z) ==
    /\ Constructed
    /\ LET index == ChunkPosToIndex(x, y, z)
       IN IF ~IndexInArray(index)
          THEN /\ cOp' = [name |-> "tryGet", x |-> x, y |-> y, z |-> z, ret |-> FALSE,
                           outBefore |-> out]
               /\ UNCHANGED out
          ELSE /\ out' = voxels[index]
               /\ cOp' = [name |-> "tryGet", x |-> x, y |-> y, z |-> z, ret |-> TRUE,
                           outBefore |-> out]
    /\ UNCHANGED <<voxels, cSteps, iterVars, indexVars, clusterVars>>

ChunkTrySet(x, y, z, v) ==
    /\ Constructed
    /\ LET index == ChunkPosToIndex(x, y, z)
       IN IF ~IndexInArray(index)
          THEN /\ cOp' = [name |-> "trySet", x |-> x, y |-> y, z |-> z, v |-> v, ret |-> FALSE,
                           before |-> voxels]
               /\ UNCHANGED voxels
          ELSE /\ voxels' = [voxels EXCEPT ![index] = v]
               /\ cOp' = [name |-> "trySet", x |-> x, y |-> y, z |-> z, v |-> v, ret |-> TRUE,
                           before |-> voxels]
    /\ UNCHANGED <<out, cSteps, iterVars, indexVars, clusterVars>>

ChunkFill(v) ==
    /\ Constructed
    /\ voxels' = fill(voxels, v)
    /\ cOp' = [name |-> "fill", v |-> v, before |-> voxels]
    /\ UNCHANGED <<out, cSteps, iterVars, indexVars, clusterVars>>

ChunkClear ==
    /\ Constructed
    /\ voxels' = clear(voxels)
    /\ cOp' = [name |-> "clear", before |-> voxels]
    /\ UNCHANGED <<out, cSteps, iterVars, indexVars, clusterVars>>

\* a behaviour of SpecChunk: a chunk is constructed, the caller writes it up to
\* MaxSetup times, and one further call is recorded with its result
NextChunk ==
    \/ \E x \in CoordsX, y \in CoordsY, z \in CoordsZ, v \in Voxels : ChunkSetupSet(x, y, z, v)
    \/ \E v \in Voxels : ChunkSetupFill(v)
    \/ \E x \in CoordsX, y \in CoordsY, z \in CoordsZ : ChunkGet(x, y, z)
    \/ \E x \in CoordsX, y \in CoordsY, z \in CoordsZ, v \in Voxels : ChunkSet(x, y, z, v)
    \/ \E v \in Voxels : ChunkFill(v)
    \/ ChunkClear

\* the same for the bounds-checked accessors
NextChunkTry ==
    \/ \E x \in CoordsX, y \in CoordsY, z \in CoordsZ, v \in Voxels : ChunkSetupSet(x, y, z, v)
    \/ \E v \in Voxels : ChunkSetupFill(v)
    \/ \E x \in CoordsX, y \in CoordsY, z \in CoordsZ : ChunkTryGet(x, y, z)
    \/ \E x \in CoordsX, y \in CoordsY, z \in CoordsZ, v \in Voxels : ChunkTrySet(x, y, z, v)

SpecChunk == InitChunk /\ [][NextChunk]_vars

SpecChunkTry == InitChunkTry /\ [][NextChunkTry]_vars

(***************************************************************************)
(* chunk.hpp: the region copy.  The source is an array of otherDims[1] x   *)
(* otherDims[2] x otherDims[3] voxels, passed with otherLength =           *)
(* otherDims[1] and otherLayerSize = otherDims[1] * otherDims[2].  The     *)
(* arguments of a call are held in a record a.                             *)
(***************************************************************************)
\* the caller's source array: every cell holds an application voxel ID of its own
OtherVoxels(otherDims) ==
    [i \in 0..(otherDims[1] * otherDims[2] * otherDims[3] - 1) |-> predefinedCount + i]

\* the four asserts on the counts and offsets (the sums are computed in int)
copyAsserts(a) ==
    /\ a.countX + a.thisOffsetX <= SX
    /\ a.countY + a.thisOffsetY <= SY
    /\ a.countZ + a.thisOffsetZ <= SZ
    /\ a.countX + a.otherOffsetX <= a.otherLength

\* for (z = 0; z < countZ; z++) for (y = 0; y < countY; y++): the pairs <<z, y>>
copyRows(a) == Nest(ForLt(0, a.countZ), ForLt(0, a.countY))

\* auto thisOffset = posToIndex(thisOffsetX, y + thisOffsetY, z + thisOffsetZ)
copyThisOffset(a, y, z) ==
    ChunkPosToIndex(a.thisOffsetX, U8(y + a.thisOffsetY), U8(z + a.thisOffsetZ))

\* faulty variant of copyOtherOffset: the source row is taken at the destination's Y offset
copyOtherOffset_ThisY(a, y, z) ==
    posToIndex(a.otherOffsetX, U8(y + a.thisOffsetY), U8(z + a.otherOffsetZ),
               a.otherLength, a.otherLayerSize)

\* auto otherOffset = voxy::posToIndex<uint8_t>(otherOffsetX, y + otherOffsetY,
\*                                              z + otherOffsetZ, otherLength, otherLayerSize)
copyOtherOffset(a, y, z) ==
    posToIndex(a.otherOffsetX, U8(y + a.otherOffsetY), U8(z + a.otherOffsetZ),
               a.otherLength, a.otherLayerSize)

\* memcpy(this->voxels + thisOffset, otherVoxels + otherOffset, countX * sizeof(Voxel)):
\* a read past the end of the source yields any value (wild), a write past the
\* end of the chunk's array lands outside the chunk
copyRow(vox, other, thisOffset, otherOffset, countX, wild) ==
    [i \in DOMAIN vox |->
        IF i >= thisOffset /\ i < thisOffset + countX
        THEN IF otherOffset + (i - thisOffset) \in DOMAIN other
             THEN other[otherOffset + (i - thisOffset)]
             ELSE wild
        ELSE vox[i]]

RECURSIVE copyFrom(_, _, _, _, _)
\* the loop nest of copy over the rows that are left
copyFrom(vox, other, a, rows, wild) ==
    IF rows = <<>> THEN vox
    ELSE LET z == Head(rows)[1]
             y == Head(rows)[2]
         IN copyFrom(copyRow(vox, other, copyThisOffset(a, y, z), copyOtherOffset(a, y, z),
                             a.countX, wild),
                     other, a, Tail(rows), wild)

\* Chunk3D::copy(otherVoxels, otherLength, otherLayerSize, countX, countY, countZ,
\*               otherOffsetX, otherOffsetY, otherOffsetZ, thisOffsetX, thisOffsetY, thisOffsetZ)
\* once its asserts have passed
copy(vox, other, a, wild) == copyFrom(vox, other, a, copyRows(a), wild)

\* some memcpy of the call reads past the end of the source array
copyReadsOutside(other, a) ==
    \E k \in DOMAIN copyRows(a) :
        /\ a.countX > 0
        /\ copyOtherOffset(a, copyRows(a)[k][2], copyRows(a)[k][1]) + a.countX - 1
               \notin DOMAIN other

\* some memcpy of the call writes past the end of the chunk's array
copyWritesOutside(a) ==
    \E k \in DOMAIN copyRows(a) :
        /\ a.countX > 0
        /\ copyThisOffset(a, copyRows(a)[k][2], copyRows(a)[k][1]) + a.countX - 1 >= chunkSize

\* the sizes of the source arrays the calls are made with
OtherDims == (1..MaxOther) \X (1..MaxOther) \X (1..MaxOther)

\* the arguments the calls are made with for a source array of size otherDims:
\* counts up to MaxCount, source offsets 0 or 1, and destination offsets at the
\* first or the last cell of each axis of the chunk
CopyArgs(otherDims) ==
    [otherLength : {otherDims[1]}, otherLayerSize : {otherDims[1] * otherDims[2]},
     countX : 0..MaxCount, countY : 0..MaxCount, countZ : 0..MaxCount,
     otherOffsetX : 0..1, otherOffsetY : 0..1, otherOffsetZ : 0..1,
     thisOffsetX : {0, SX - 1}, thisOffsetY : {0, SY - 1}, thisOffsetZ : {0, SZ - 1}]

\* a chunk as the constructor Chunk3D(v) left it, in a build with or without asserts
InitCopy ==
    /\ IdleIndex /\ IdleCluster
    /\ size = 0 /\ ndebug \in BOOLEAN
    /\ ePc = "idle" /\ ePositive = 0 /\ eNegative = 0 /\ eOut = <<>>
    /\ sPc = "idle" /\ sPositive = 0 /\ sNegative = 0 /\ sOut = <<>>
    /\ \E v \in Voxels :
          /\ voxels = fill(ZeroVoxels, v)
          /\ cOp = [name |-> "Chunk3D(v)", v |-> v]
    /\ out = voxelNull
    /\ cSteps = 0

\* a call whose asserts pass, or that is made with asserts compiled out
ChunkCopy(otherDims, a, wild) ==
    /\ Constructed
    /\ AssertOk(copyAsserts(a))
    /\ LET other == OtherVoxels(otherDims)
           outside == copyReadsOutside(other, a)
       IN /\ wild = voxelNull \/ outside
          /\ voxels' = copy(voxels, other, a, wild)
          /\ cOp' = [name |-> "copy", otherDims |-> otherDims, a |-> a, ret |-> "done",
                     before |-> voxels, outside |-> outside \/ copyWritesOutside(a)]
    /\ UNCHANGED <<out, cSteps, iterVars, indexVars, clusterVars>>

\* a call stopped by one of its asserts
ChunkCopyAbort(otherDims, a) ==
    /\ Constructed
    /\ ~AssertOk(copyAsserts(a))
    /\ cOp' = [name |-> "copy", otherDims |-> otherDims, a |-> a, ret |-> "abort",
               before |-> voxels, outside |-> FALSE]
    /\ UNCHANGED <<voxels, out, cSteps, iterVars, indexVars, clusterVars>>

\* a behaviour of SpecCopy: a chunk is constructed and one call of copy is made
NextCopy ==
    \/ /\ Constructed
       /\ \E otherDims \in OtherDims : \E a \in CopyArgs(otherDims), wild \in Voxels :
              ChunkCopy(otherDims, a, wild)
    \/ /\ Constructed
       /\ \E otherDims \in OtherDims : \E a \in CopyArgs(otherDims) :
              ChunkCopyAbort(otherDims, a)

SpecCopy == InitCopy /\ [][NextCopy]_vars


(***************************************************************************)
(* cluster.hpp.  The chunk type C of Cluster3D<C, V> is a cubic chunk with *)
(* C::length = ChunkLength, laid out and read as Chunk3D is.               *)
(***************************************************************************)
clusterLength == 3

clusterLayerSize == 9

clusterSize == 27

\* Cluster3D::positions, the entry of slot i at positions[i + 1]
positions ==
    << <<-1, -1, -1>>, << 0, -1, -1>>, << 1, -1, -1>>,
       <<-1,  0, -1>>, << 0,  0, -1>>, << 1,  0, -1>>,
       <<-1,  1, -1>>, << 0,  1, -1>>, << 1,  1, -1>>,
       <<-1, -1,  0>>, << 0, -1,  0>>, << 1, -1,  0>>,
       <<-1,  0,  0>>, << 0,  0,  0>>, << 1,  0,  0>>,
       <<-1,  1,  0>>, << 0,  1,  0>>, << 1,  1,  0>>,
       <<-1, -1,  1>>, << 0, -1,  1>>, << 1, -1,  1>>,
       <<-1,  0,  1>>, << 0,  0,  1>>, << 1,  0,  1>>,
       <<-1,  1,  1>>, << 0,  1,  1>>, << 1,  1,  1>> >>

\* conversion to int16_t
I16(n) == ((n + 32768) % 65536) - 32768

\* C++ integer division: the quotient is truncated towards zero
CDiv(a, b) == IF a >= 0 THEN a \div b ELSE -((-a) \div b)

\* Cluster3D::posToIndex(uint8_t, uint8_t, uint8_t) -> uint8_t
ClusterPosToIndex(x, y, z) == U8(posToIndex(U8(x), U8(y), U8(z), clusterLength, clusterLayerSize))

\* static constexpr uint8_t centralIndex = posToIndex(1, 1, 1)
centralIndex == ClusterPosToIndex(1, 1, 1)

\* a null Chunk*: no voxel array behind it
NullChunk == <<>>

\* the precondition getVoxelChunk asserts on each coordinate
InCluster(c) == c >= -ChunkLength /\ c <= ChunkLength * 2 - 1

\* faulty variant of getVoxelChunk: the slot index is taken with the X and Z axes swapped
getVoxelChunk_SwappedAxes(x, y, z) ==
    LET lx == CDiv(x + ChunkLength, ChunkLength)
        ly == CDiv(y + ChunkLength, ChunkLength)
        lz == CDiv(z + ChunkLength, ChunkLength)
    IN [index |-> ClusterPosToIndex(lz, ly, lx),
        x |-> I16(x + (lx - 1) * (-ChunkLength)),
        y |-> I16(y + (ly - 1) * (-ChunkLength)),
        z |-> I16(z + (lz - 1) * (-ChunkLength))]

\* Cluster3D::getVoxelChunk: the slot it returns chunks[index] of and the
\* coordinates it leaves in x, y, z; lx, ly, lz are computed in int
getVoxelChunk(x, y, z) ==
    LET lx == CDiv(x + ChunkLength, ChunkLength)
        ly == CDiv(y + ChunkLength, ChunkLength)
        lz == CDiv(z + ChunkLength, ChunkLength)
    IN [index |-> ClusterPosToIndex(lx, ly, lz),
        x |-> I16(x + (lx - 1) * (-ChunkLength)),
        y |-> I16(y + (ly - 1) * (-ChunkLength)),
        z |-> I16(z + (lz - 1) * (-ChunkLength))]

\* C::get(uint8_t x, uint8_t y, uint8_t z) of a cubic chunk
CubeGet(vox, x, y, z) ==
    vox[posToIndex(U8(x), U8(y), U8(z), ChunkLength, ChunkLength * ChunkLength)]

\* faulty variant of getVoxel: voxel::null is returned for a null chunk
getVoxel_NullSentinel(chs, x, y, z, nullVoxel) ==
    LET r == getVoxelChunk(x, y, z)
        chunk == chs[r.index]
    IN IF chunk # NullChunk THEN CubeGet(chunk, r.x, r.y, r.z) ELSE voxelNull

\* Cluster3D::getVoxel(int16_t x, int16_t y, int16_t z, Voxel nullVoxel)
getVoxel(chs, x, y, z, nullVoxel) ==
    LET r == getVoxelChunk(x, y, z)
        chunk == chs[r.index]
    IN IF chunk # NullChunk THEN CubeGet(chunk, r.x, r.y, r.z) ELSE nullVoxel

\* C::unsafeGet(uint8_t x, uint8_t y, uint8_t z) of a cubic chunk: no check
CubeUnsafeGet(vox, x, y, z) ==
    vox[posToIndex(U8(x), U8(y), U8(z), ChunkLength, ChunkLength * ChunkLength)]

\* Cluster3D::isComplete: every slot's pointer is or-ed into mask, and the
\* mask is returned as a bool
isComplete(chs) == \E i \in 0..(clusterSize - 1) : chs[i] # NullChunk

\* faulty variant of tryGetVoxelChunk: a coordinate equal to -length is taken for
\* out of range
tryGetVoxelChunk_ShortRange(x, y, z) ==
    IF \/ x <= -ChunkLength \/ x > ChunkLength * 2 - 1
       \/ y <= -ChunkLength \/ y > ChunkLength * 2 - 1
       \/ z <= -ChunkLength \/ z > ChunkLength * 2 - 1
    THEN [inside |-> FALSE, index |-> 0, x |-> x, y |-> y, z |-> z]
    ELSE [inside |-> TRUE] @@ getVoxelChunk(x, y, z)

\* Cluster3D::tryGetVoxelChunk: nullptr (inside = FALSE) for a coordinate out
\* of range, x, y, z left as they were; otherwise the statements of
\* getVoxelChunk, which the source repeats
tryGetVoxelChunk(x, y, z) ==
    IF \/ x < -ChunkLength \/ x > ChunkLength * 2 - 1
       \/ y < -ChunkLength \/ y > ChunkLength * 2 - 1
       \/ z < -ChunkLength \/ z > ChunkLength * 2 - 1
    THEN [inside |-> FALSE, index |-> 0, x |-> x, y |-> y, z |-> z]
    ELSE [inside |-> TRUE] @@ getVoxelChunk(x, y, z)

\* Cluster3D::tryGetVoxel(int16_t x, int16_t y, int16_t z, Voxel& voxel): the
\* value it returns and the value it leaves in voxel
tryGetVoxel(chs, x, y, z, voxel) ==
    LET r == tryGetVoxelChunk(x, y, z)
    IN IF ~r.inside \/ chs[r.index] = NullChunk
       THEN [ret |-> FALSE, voxel |-> voxel]
       ELSE [ret |-> TRUE, voxel |-> CubeUnsafeGet(chs[r.index], r.x, r.y, r.z)]

\* Cluster3D::setVoxel(uint16_t x, uint16_t y, uint16_t z, Voxel voxel): its
\* first statement passes the uint16_t variables x, y, z to
\* getVoxelChunk(int16_t&, int16_t&, int16_t&).  A non-const lvalue reference
\* to int16_t does not bind to a uint16_t, so a program that calls setVoxel
\* is ill-formed: no build holds the call (built = FALSE), and no chunk is
\* written by it.
setVoxel(chs, x, y, z, voxel) == [built |-> FALSE, chunks |-> chs]

\* Cluster3D::trySetVoxel(uint16_t x, uint16_t y, uint16_t z, Voxel voxel): the
\* same for its call of tryGetVoxelChunk(int16_t&, int16_t&, int16_t&); true is
\* never returned
trySetVoxel(chs, x, y, z, voxel) == [built |-> FALSE, ret |-> FALSE, chunks |-> chs]

\* the chunk array handed to the constructor: every cell of every chunk holds
\* an application voxel ID of its own, and the slots of nulls are null
ChunksWithNulls(nulls) ==
    [s \in 0..(clusterSize - 1) |->
        IF s \in nulls THEN NullChunk
        ELSE [i \in 0..(ChunkLength * ChunkLength * ChunkLength - 1) |->
                 predefinedCount + s * ChunkLength * ChunkLength * ChunkLength + i]]

\* the sets of null slots the clusters are constructed with: none, one
\* X-neighbour or corner, every neighbour, and all (Cluster3D(nullptr))
NullSets ==
    { {}, {centralIndex - 1}, {centralIndex + 1}, {0},
      (0..(clusterSize - 1)) \ {centralIndex}, 0..(clusterSize - 1) }

\* the coordinates the cluster calls are made with: -length .. 2 * length - 1
ClusterCoords == (-ChunkLength)..(ChunkLength * 2 - 1)

\* the coordinates the try calls are made with: one more on either side
TryCoords == (-ChunkLength - 1)..(ChunkLength * 2)

\* Cluster3D(Chunk* chunks[size]): the slots are copied from the caller's array
InitCluster ==
    /\ IdleIter /\ IdleIndex /\ IdleChunk
    /\ \E nulls \in NullSets : chunks = ChunksWithNulls(nulls)
    /\ kOp = [name |-> "Cluster3D"]
    /\ kSteps = 0

\* a call of getVoxelChunk with x, y, z holding coordinates of the cluster
ClusterGetVoxelChunk(x, y, z) ==
    /\ kOp.name = "Cluster3D"
    /\ InCluster(x) /\ InCluster(y) /\ InCluster(z)     \* the three asserts
    /\ LET r == getVoxelChunk(x, y, z)
       IN kOp' = [name |-> "getVoxelChunk", x |-> x, y |-> y, z |-> z,
                  index |-> r.index, lx |-> r.x, ly |-> r.y, lz |-> r.z]
    /\ UNCHANGED <<chunks, kSteps, iterVars, indexVars, chunkVars>>

ClusterGetVoxel(x, y, z, nullVoxel) ==
    /\ kOp.name = "Cluster3D"
    /\ InCluster(x) /\ InCluster(y) /\ InCluster(z)     \* asserts of getVoxelChunk
    /\ kOp' = [name |-> "getVoxel", x |-> x, y |-> y, z |-> z, nullVoxel |-> nullVoxel,
               ret |-> getVoxel(chunks, x, y, z, nullVoxel), before |-> chunks]
    /\ UNCHANGED <<chunks, kSteps, iterVars, indexVars, chunkVars>>

\* a call of isComplete
ClusterIsComplete ==
    /\ kOp.name = "Cluster3D"
    /\ kOp' = [name |-> "isComplete", ret |-> isComplete(chunks)]
    /\ UNCHANGED <<chunks, kSteps, iterVars, indexVars, chunkVars>>

\* a call of tryGetVoxel with any coordinates, the caller's variable holding voxel
ClusterTryGetVoxel(x, y, z, voxel) ==
    /\ kOp.name = "Cluster3D"
    /\ LET r == tryGetVoxel(chunks, x, y, z, voxel)
       IN kOp' = [name |-> "tryGetVoxel", x |-> x, y |-> y, z |-> z,
                  voxelBefore |-> voxel, ret |-> r.ret, voxel |-> r.voxel]
    /\ UNCHANGED <<chunks, kSteps, iterVars, indexVars, chunkVars>>

\* a call of setVoxel written with coordinates of the cluster
ClusterSetVoxel(x, y, z, voxel) ==
    /\ kOp.name = "Cluster3D"
    /\ LET r == setVoxel(chunks, x, y, z, voxel)
       IN /\ chunks' = r.chunks
          /\ kOp' = [name |-> "setVoxel", x |-> x, y |-> y, z |-> z, voxel |-> voxel,
                     built |-> r.built, before |-> chunks]
    /\ UNCHANGED <<kSteps, iterVars, indexVars, chunkVars>>

\* a call of trySetVoxel written with coordinates of the cluster
ClusterTrySetVoxel(x, y, z, voxel) ==
    /\ kOp.name = "Cluster3D"
    /\ LET r == trySetVoxel(chunks, x, y, z, voxel)
       IN /\ chunks' = r.chunks
          /\ kOp' = [name |-> "trySetVoxel", x |-> x, y |-> y, z |-> z, voxel |-> voxel,
                     built |-> r.built, ret |-> r.ret, before |-> chunks]
    /\ UNCHANGED <<kSteps, iterVars, indexVars, chunkVars>>

NextCluster ==
    \/ \E x \in ClusterCoords, y \in ClusterCoords, z \in ClusterCoords :
           ClusterGetVoxelChunk(x, y, z)
    \/ \E x \in ClusterCoords, y \in ClusterCoords, z \in ClusterCoords, nv \in Voxels :
           ClusterGetVoxel(x, y, z, nv)
    \/ ClusterIsComplete
    \/ \E x \in TryCoords, y \in TryCoords, z \in TryCoords, voxel \in Voxels :
           ClusterTryGetVoxel(x, y, z, voxel)
    \/ \E x \in ClusterCoords, y \in ClusterCoords, z \in ClusterCoords, voxel \in Voxels :
           ClusterSetVoxel(x, y, z, voxel)
    \/ \E x \in ClusterCoords, y \in ClusterCoords, z \in ClusterCoords, voxel \in Voxels :
           ClusterTrySetVoxel(x, y, z, voxel)

SpecCluster == InitCluster /\ [][NextCluster]_vars


(***************************************************************************)
(* Helpers of the traversal properties.                                    *)
(***************************************************************************)
RECURSIVE Flat(_)
\* every visitor call of a traversal, in call order
Flat(units) == IF units = <<>> THEN <<>> ELSE Head(units) \o Flat(Tail(units))

\* how many times the visitor was called with coordinate c
Count(calls, c) == Cardinality({i \in DOMAIN calls : calls[i] = c})

Cells(calls) == {calls[i] : i \in DOMAIN calls}

Cube(n) == (0..(n - 1)) \X (0..(n - 1)) \X (0..(n - 1))

\* the call returned or was stopped by a failing assert
Ended == {"done", "abort"}

\* two units hold the same coordinates, each as often in one as in the other
SameUnit(u, w) ==
    /\ Len(u) = Len(w)
    /\ Cells(u) = Cells(w)
    /\ \A c \in Cells(u) : Count(u, c) = Count(w, c)

\* the centre unit the parity of n selects
CenterUnit(n) ==
    IF n % 2 = 1
    THEN {<<n \div 2, n \div 2, n \div 2>>}
    ELSE {(n \div 2) - 1, n \div 2} \X {(n \div 2) - 1, n \div 2} \X {(n \div 2) - 1, n \div 2}

(***************************************************************************)
(* C1: for every cube side N > 1, N = 2 included, a call of                *)
(* expandIterator3D has invoked the visitor exactly once for each          *)
(* coordinate of [0,N)^3 and for no coordinate outside it.                 *)
(***************************************************************************)
C1_ExpandVisitsCubeOnce ==
    (size > 1 /\ ePc \in Ended) =>
        /\ \A c \in Cube(size) : Count(Flat(eOut), c) = 1
        /\ Cells(Flat(eOut)) \subseteq Cube(size)

(***************************************************************************)
(* C2: for every N > 1, once both traversals have ended, shrinkIterator3D  *)
(* has emitted the units of expandIterator3D in reversed order, unit i of  *)
(* one holding the same coordinates as unit k + 1 - i of the other, so     *)
(* both visit the same multiset of coordinates.                            *)
(***************************************************************************)
C2_ShrinkReversesExpand ==
    (size > 1 /\ ePc \in Ended /\ sPc \in Ended) =>
        /\ Len(sOut) = Len(eOut)
        /\ \A i \in DOMAIN eOut : SameUnit(eOut[i], sOut[Len(eOut) + 1 - i])
        /\ \A c \in Cells(Flat(eOut)) \cup Cells(Flat(sOut)) :
               Count(Flat(eOut), c) = Count(Flat(sOut), c)

\* both traversals returned after a centre unit and two shells
C2_Witness ==
    /\ ePc = "done" /\ sPc = "done"
    /\ Len(eOut) = 3 /\ Len(sOut) = 3
    /\ Len(eOut[3]) > Len(eOut[2])

(***************************************************************************)
(* C3: the parity of N selects the centre unit: expandIterator3D visits    *)
(* the single cell (N/2,N/2,N/2) first for odd N and the eight cells of    *)
(* {N/2-1,N/2}^3 first, each once, for even N; shrinkIterator3D visits     *)
(* that unit last.                                                         *)
(***************************************************************************)
C3_CenterUnitByParity ==
    /\ (size > 1 /\ ePc \in Ended) =>
           /\ Len(eOut) >= 1
           /\ Cells(eOut[1]) = CenterUnit(size)
           /\ Len(eOut[1]) = Cardinality(CenterUnit(size))
    /\ (size > 1 /\ sPc \in Ended) =>
           /\ Len(sOut) >= 1
           /\ Cells(sOut[Len(sOut)]) = CenterUnit(size)
           /\ Len(sOut[Len(sOut)]) = Cardinality(CenterUnit(size))

(***************************************************************************)
(* C4: only N <= 1 violates the precondition: for every N >= 2 neither     *)
(* traversal reaches a failing assertion.                                  *)
(***************************************************************************)
C4_NoAssertFailsFromTwo ==
    size >= 2 => (ePc # "abort" /\ sPc # "abort")

(***************************************************************************)
(* Helpers of the chunk properties.                                        *)
(***************************************************************************)
\* the in-bounds positions of the chunk
Positions == (0..(SX - 1)) \X (0..(SY - 1)) \X (0..(SZ - 1))

GetAt(vox, p) == get(vox, p[1], p[2], p[3])

\* the in-bounds positions of the volume of the index calls
VolumePositions == (0..(volume[1] - 1)) \X (0..(volume[2] - 1)) \X (0..(volume[3] - 1))

(***************************************************************************)
(* Helpers of the cluster properties.                                      *)
(***************************************************************************)
\* floor(c / length), the chunk offset that owns coordinate c
ChunkOf(c) == IF c < 0 THEN -1 ELSE IF c < ChunkLength THEN 0 ELSE 1

\* the slots whose entry of the positions table is the offset triple of (x,y,z)
SlotsOf(x, y, z) ==
    {i \in 0..(clusterSize - 1) : positions[i + 1] = <<ChunkOf(x), ChunkOf(y), ChunkOf(z)>>}

(***************************************************************************)
(* C5: for every coordinate with each component in [-L, 2L-1],             *)
(* getVoxelChunk selects exactly one slot, the one whose positions entry   *)
(* is (floor(x/L), floor(y/L), floor(z/L)), and rewrites each component c  *)
(* to c - L*floor(c/L), which lies in [0, L); getVoxel reads the cell at   *)
(* the rewritten coordinate of that slot's chunk, so a coordinate in       *)
(* bounds reads the central chunk unchanged, x = -1 reads cell L-1 of the  *)
(* negative-X neighbour and x = L reads cell 0 of the positive-X one.      *)
(***************************************************************************)
C5_ClusterRouting ==
    /\ kOp.name = "getVoxelChunk" =>
           /\ SlotsOf(kOp.x, kOp.y, kOp.z) = {kOp.index}
           /\ kOp.lx = kOp.x - ChunkLength * ChunkOf(kOp.x)
           /\ kOp.ly = kOp.y - ChunkLength * ChunkOf(kOp.y)
           /\ kOp.lz = kOp.z - ChunkLength * ChunkOf(kOp.z)
           /\ {kOp.lx, kOp.ly, kOp.lz} \subseteq 0..(ChunkLength - 1)
           /\ (ChunkOf(kOp.x) = 0 /\ ChunkOf(kOp.y) = 0 /\ ChunkOf(kOp.z) = 0) =>
                  /\ kOp.index = centralIndex
                  /\ <<kOp.lx, kOp.ly, kOp.lz>> = <<kOp.x, kOp.y, kOp.z>>
    /\ kOp.name = "getVoxel" =>
           \A i \in SlotsOf(kOp.x, kOp.y, kOp.z) :
               chunks[i] # NullChunk =>
                   kOp.ret = CubeGet(chunks[i], kOp.x - ChunkLength * ChunkOf(kOp.x),
                                     kOp.y - ChunkLength * ChunkOf(kOp.y),
                                     kOp.z - ChunkLength * ChunkOf(kOp.z))
    /\ (/\ kOp.name = "getVoxel"
        /\ kOp.y \in 0..(ChunkLength - 1) /\ kOp.z \in 0..(ChunkLength - 1)) =>
           /\ (kOp.x = -1 /\ chunks[centralIndex - 1] # NullChunk) =>
                  /\ positions[centralIndex] = <<-1, 0, 0>>
                  /\ kOp.ret = CubeGet(chunks[centralIndex - 1], ChunkLength - 1, kOp.y, kOp.z)
           /\ (kOp.x = ChunkLength /\ chunks[centralIndex + 1] # NullChunk) =>
                  /\ positions[centralIndex + 2] = <<1, 0, 0>>
                  /\ kOp.ret = CubeGet(chunks[centralIndex + 1], 0, kOp.y, kOp.z)

\* getVoxel(-1, y, z) has read the last X cell of the negative-X neighbour
C5_Witness ==
    /\ kOp.name = "getVoxel" /\ kOp.x = -1
    /\ kOp.y = ChunkLength - 1 /\ kOp.z = 0
    /\ chunks[centralIndex - 1] # NullChunk
    /\ kOp.ret = chunks[centralIndex - 1][(ChunkLength - 1) * ChunkLength + ChunkLength - 1]

(***************************************************************************)
(* C6: for every in-bounds position p and voxel v, after set(p, v) get(p)  *)
(* returns v and every other in-bounds position reads as before the call,  *)
(* whatever set and fill calls came before.                                *)
(***************************************************************************)
C6_SetThenGet ==
    (cOp.name = "set" /\ InBounds(cOp.x, cOp.y, cOp.z)) =>
        /\ get(voxels, cOp.x, cOp.y, cOp.z) = cOp.v
        /\ \A q \in Positions \ {<<cOp.x, cOp.y, cOp.z>>} :
               GetAt(voxels, q) = GetAt(cOp.before, q)

\* a set of an inner position that changes a cell of a chunk written before
C6_Witness ==
    /\ cOp.name = "set" /\ cSteps >= 1
    /\ cOp.x = SX - 1 /\ cOp.y = SY - 1 /\ cOp.z = SZ - 1
    /\ get(cOp.before, cOp.x, cOp.y, cOp.z) # cOp.v
    /\ \E q \in Positions : GetAt(cOp.before, q) # GetAt(cOp.before, <<0, 0, 0>>)

(***************************************************************************)
(* C7: posToIndex(x,y,z) = z*SX*SY + y*SX + x maps the in-bounds positions *)
(* of a volume one-to-one onto [0, SX*SY*SZ) and indexToPos is its         *)
(* inverse, in both directions.                                            *)
(***************************************************************************)
C7_IndexRoundTrip ==
    /\ (iOp.name = "posToIndex" /\ <<iOp.x, iOp.y, iOp.z>> \in VolumePositions) =>
           /\ iOp.ret = iOp.z * volume[1] * volume[2] + iOp.y * volume[1] + iOp.x
           /\ iOp.ret \in 0..(VolumeSize - 1)
           /\ indexToPos(iOp.ret, volume[1], VolumeLayerSize)
                  = [x |-> iOp.x, y |-> iOp.y, z |-> iOp.z]
           /\ \A q \in VolumePositions \ {<<iOp.x, iOp.y, iOp.z>>} :
                  posToIndex(q[1], q[2], q[3], volume[1], VolumeLayerSize) # iOp.ret
    /\ (iOp.name = "indexToPos" /\ iOp.index < VolumeSize) =>
           /\ <<iOp.ret.x, iOp.ret.y, iOp.ret.z>> \in VolumePositions
           /\ posToIndex(iOp.ret.x, iOp.ret.y, iOp.ret.z, volume[1], VolumeLayerSize)
                  = iOp.index

\* posToIndex of the far corner of a volume with three different sizes
C7_Witness ==
    /\ iOp.name = "posToIndex"
    /\ volume[1] # volume[2] /\ volume[2] # volume[3] /\ volume[1] # volume[3]
    /\ iOp.x = volume[1] - 1 /\ iOp.y = volume[2] - 1 /\ iOp.z = volume[3] - 1

(***************************************************************************)
(* C8: after fill(v) every in-bounds position reads v, whatever earlier    *)
(* calls stored and also for v = 0; clear() leaves the chunk as fill(0)    *)
(* does; the constructor Chunk3D(v) yields the all-v chunk.                *)
(***************************************************************************)
C8_FillEquivalence ==
    /\ cOp.name = "fill" => \A p \in Positions : GetAt(voxels, p) = cOp.v
    /\ cOp.name = "clear" => voxels = fill(cOp.before, voxelNull)
    /\ (cOp.name = "Chunk3D(v)" /\ cSteps = 0) =>
           \A p \in Positions : GetAt(voxels, p) = cOp.v

\* fill(0) of a chunk that held two different values
C8_Witness ==
    /\ cOp.name = "fill" /\ cOp.v = voxelNull
    /\ \E p, q \in Positions : GetAt(cOp.before, p) # GetAt(cOp.before, q)

(***************************************************************************)
(* C9: tryGet and trySet return true if the position is inside the chunk   *)
(* bounds (x < SX and y < SY and z < SZ) and false otherwise.              *)
(***************************************************************************)
C9_TryReturnsInBounds ==
    cOp.name \in {"tryGet", "trySet"} => (cOp.ret <=> InBounds(cOp.x, cOp.y, cOp.z))

(***************************************************************************)
(* C10: a trySet of a position outside the chunk bounds on any axis leaves *)
(* every cell unchanged, and a tryGet of such a position leaves the        *)
(* caller's output voxel unchanged.                                        *)
(***************************************************************************)
C10_TryOutsideChangesNothing ==
    /\ (cOp.name = "trySet" /\ ~InBounds(cOp.x, cOp.y, cOp.z)) => voxels = cOp.before
    /\ (cOp.name = "tryGet" /\ ~InBounds(cOp.x, cOp.y, cOp.z)) => out = cOp.outBefore

(***************************************************************************)
(* Helpers of the region copy properties.                                  *)
(***************************************************************************)
\* the box placed at the destination offset lies inside the chunk
BoxFitsThis(a) ==
    /\ a.countX + a.thisOffsetX <= SX
    /\ a.countY + a.thisOffsetY <= SY
    /\ a.countZ + a.thisOffsetZ <= SZ

\* the box placed at the source offset lies inside the source array
BoxFitsOther(otherDims, a) ==
    /\ a.countX + a.otherOffsetX <= otherDims[1]
    /\ a.countY + a.otherOffsetY <= otherDims[2]
    /\ a.countZ + a.otherOffsetZ <= otherDims[3]

(***************************************************************************)
(* C11: in a build with assertions, a region copy whose box exceeds the    *)
(* chunk on any axis at the destination offset, or exceeds the source      *)
(* array on any axis (X, Y or Z) at the source offset, is stopped by an    *)
(* assertion before any cell is copied: the chunk is left as it was and    *)
(* no cell outside either array is read or written.                        *)
(***************************************************************************)
C11_CopyRejectsBadBox ==
    (/\ cOp.name = "copy" /\ ~ndebug
     /\ ~(BoxFitsThis(cOp.a) /\ BoxFitsOther(cOp.otherDims, cOp.a))) =>
        /\ cOp.ret = "abort"
        /\ voxels = cOp.before
        /\ ~cOp.outside

InRange(x, y, z) == InCluster(x) /\ InCluster(y) /\ InCluster(z)

\* c rewritten into the local space of the chunk that owns it
LocalOf(c) == c - ChunkLength * ChunkOf(c)

\* every slot of the cluster holds a chunk
AllSlotsSet(chs) == \A i \in 0..(clusterSize - 1) : chs[i] # NullChunk

(***************************************************************************)
(* C12: isComplete() returns true if and only if every slot of the         *)
(* cluster holds a non-null chunk; one null slot makes it return false     *)
(* whatever the other slots hold.                                          *)
(***************************************************************************)
C12_IsCompleteIffAllSet ==
    kOp.name = "isComplete" => (kOp.ret <=> AllSlotsSet(chunks))

(***************************************************************************)
(* C13: tryGetVoxel(x,y,z,out) on a cluster with null slots: for a         *)
(* coordinate in [-L, 2L-1]^3 it returns false and leaves out unchanged    *)
(* when the slot the coordinate routes to is null, and returns true with   *)
(* that chunk's voxel at the rewritten coordinate in out when the slot is  *)
(* non-null, whatever the other slots hold; for a coordinate outside the   *)
(* range on any axis it returns false.                                     *)
(***************************************************************************)
C13_TryGetVoxelSafe ==
    kOp.name = "tryGetVoxel" =>
        IF InRange(kOp.x, kOp.y, kOp.z)
        THEN /\ SlotsOf(kOp.x, kOp.y, kOp.z) # {}
             /\ \A i \in SlotsOf(kOp.x, kOp.y, kOp.z) :
                    IF chunks[i] = NullChunk
                    THEN ~kOp.ret /\ kOp.voxel = kOp.voxelBefore
                    ELSE /\ kOp.ret
                         /\ kOp.voxel = CubeGet(chunks[i], LocalOf(kOp.x), LocalOf(kOp.y),
                                                LocalOf(kOp.z))
        ELSE ~kOp.ret

\* tryGetVoxel(-L, y, z) has read the negative-X neighbour of a cluster whose
\* corner slot is null
C13_Witness ==
    /\ kOp.name = "tryGetVoxel" /\ kOp.ret
    /\ kOp.x = -ChunkLength /\ kOp.y = 0 /\ kOp.z = 0
    /\ chunks[0] = NullChunk
    /\ kOp.voxel = chunks[centralIndex - 1][0]

(***************************************************************************)
(* C14: getVoxel(x,y,z,nullVoxel) for a coordinate in [-L, 2L-1]^3 returns *)
(* the caller's nullVoxel when the slot the coordinate routes to is null   *)
(* and that chunk's get at the rewritten coordinate otherwise, and leaves  *)
(* every chunk and every slot of the cluster as it was.                    *)
(***************************************************************************)
C14_GetVoxelNullFallback ==
    kOp.name = "getVoxel" =>
        /\ SlotsOf(kOp.x, kOp.y, kOp.z) # {}
        /\ \A i \in SlotsOf(kOp.x, kOp.y, kOp.z) :
               IF chunks[i] = NullChunk
               THEN kOp.ret = kOp.nullVoxel
               ELSE kOp.ret = CubeGet(chunks[i], LocalOf(kOp.x), LocalOf(kOp.y),
                                      LocalOf(kOp.z))
        /\ chunks = kOp.before

\* getVoxel routed to a null positive-X neighbour has returned the caller's
\* nullVoxel, which is not voxel::null
C14_Witness ==
    /\ kOp.name = "getVoxel" /\ kOp.x = ChunkLength * 2 - 1
    /\ kOp.y = 0 /\ kOp.z = 0
    /\ chunks[centralIndex + 1] = NullChunk /\ chunks[centralIndex] # NullChunk
    /\ kOp.nullVoxel = voxelUnknown /\ kOp.ret = voxelUnknown

(***************************************************************************)
(* C19: on a cluster whose slots are all non-null, for every coordinate    *)
(* of [-L, 2L-1]^3, negative components included, after setVoxel(x,y,z,v)  *)
(* or trySetVoxel(x,y,z,v), which returns true, getVoxel(x,y,z) returns v  *)
(* and no other cell of any chunk of the cluster has changed.              *)
(***************************************************************************)
C19_SetVoxelThenGetVoxel ==
    (/\ kOp.name \in {"setVoxel", "trySetVoxel"}
     /\ AllSlotsSet(kOp.before) /\ InRange(kOp.x, kOp.y, kOp.z)) =>
        /\ kOp.name = "trySetVoxel" => kOp.ret
        /\ getVoxel(chunks, kOp.x, kOp.y, kOp.z, voxelNull) = kOp.voxel
        /\ \A i \in 0..(clusterSize - 1) :
               /\ chunks[i] # NullChunk
               /\ \A c \in DOMAIN chunks[i] :
                      \/ chunks[i][c] = kOp.before[i][c]
                      \/ /\ i \in SlotsOf(kOp.x, kOp.y, kOp.z)
                         /\ c = posToIndex(LocalOf(kOp.x), LocalOf(kOp.y), LocalOf(kOp.z),
                                           ChunkLength, ChunkLength * ChunkLength)

(***************************************************************************)
(* Helpers of the shell properties.                                        *)
(***************************************************************************)
\* the cells of [lo, hi]^3
Box(lo, hi) == (lo..hi) \X (lo..hi) \X (lo..hi)

\* the cells of [lo, hi]^3 with a coordinate equal to lo or hi
Shell(lo, hi) == {c \in Box(lo, hi) : \E k \in 1..3 : c[k] = lo \/ c[k] = hi}

\* a uint8_t read as a signed 8-bit value: 255 stands for -1
Signed(n) == IF n >= U8Mod \div 2 THEN n - U8Mod ELSE n

(***************************************************************************)
(* C15: for every pair negative < positive, positive = negative + 1        *)
(* included, runLayerIterator3D(onIter, positive, negative) returns having *)
(* invoked the visitor exactly once for each cell of [negative,positive]^3 *)
(* with a coordinate equal to negative or positive and for no other cell:  *)
(* s^3 - (s-2)^3 calls for s = positive - negative + 1.                    *)
(***************************************************************************)
C15_ShellVisitedOnce ==
    (ePc \in {"returned", "hang"} /\ eNegative < ePositive) =>
        /\ ePc = "returned"
        /\ LET s == ePositive - eNegative + 1
           IN Len(eOut[1]) = s * s * s - (s - 2) * (s - 2) * (s - 2)
        /\ \A c \in Shell(eNegative, ePositive) : Count(eOut[1], c) = 1
        /\ Cells(eOut[1]) \subseteq Shell(eNegative, ePositive)

(***************************************************************************)
(* C16: in the stepwise expand API, after beginExpandIterator3D and after  *)
(* every runLayerIterator3D + advanceExpandIterator3D pair, the visitor    *)
(* has been called exactly once for each cell of the centred cube          *)
(* [negative+1, positive-1]^3, negative read as a signed value, and for no *)
(* other cell, and negative + positive = N - 1.                            *)
(***************************************************************************)
C16_ExpandPrefixIsCube ==
    (size > 1 /\ ePc \in {"check", "done"}) =>
        /\ Cells(Flat(eOut)) = Box(Signed(eNegative) + 1, ePositive - 1)
        /\ \A c \in Box(Signed(eNegative) + 1, ePositive - 1) : Count(Flat(eOut), c) = 1
        /\ Signed(eNegative) + ePositive = size - 1

\* the centre cell and one shell of a 5-cube have been visited and the loop goes on
C16_Witness ==
    /\ size = 5 /\ ePc = "check"
    /\ Len(eOut) = 2 /\ Len(Flat(eOut)) = 27
    /\ checkExpandIterator3D(size, ePositive)

(***************************************************************************)
(* C17: for every N > 1 expandIterator3D and shrinkIterator3D each return  *)
(* after floor((N-1)/2) calls of runLayerIterator3D and one centre         *)
(* emission; expand ends with positive = N, its last shell being the outer *)
(* face of the cube; shrink starts with that shell and ends with           *)
(* (negative, positive) at the bounds of the centre unit, positive -       *)
(* negative being 0 for odd N and 1 for even N.                            *)
(***************************************************************************)
C17_TraversalEnds ==
    /\ size > 1 => (ePc # "hang" /\ sPc # "hang")
    /\ (size > 1 /\ ePc \in Ended) =>
           /\ ePc = "done"
           /\ Len(eOut) = ((size - 1) \div 2) + 1
           /\ ePositive = size
           /\ Len(eOut) > 1 => Cells(eOut[Len(eOut)]) = Shell(0, size - 1)
    /\ (size > 1 /\ sPc \in Ended) =>
           /\ sPc = "done"
           /\ Len(sOut) = ((size - 1) \div 2) + 1
           /\ Len(sOut) > 1 => Cells(sOut[1]) = Shell(0, size - 1)
           /\ sPositive - sNegative = (IF size % 2 = 1 THEN 0 ELSE 1)
           /\ Cells(sOut[Len(sOut)]) = Box(sNegative, sPositive)

=============================================================================
